---- MODULE Spec2Model ----
(***************************************************************************)
(* Model of lib/model/wallet.js: the Wallet aggregate (onboarding state    *)
(* machine, address issuance, cold-staking setup).  One wallet object is   *)
(* modelled; every method of Wallet is one action.  A call that throws is  *)
(* a step that records ok = FALSE in `last` and keeps whatever the code    *)
(* had already mutated before the throw.                                   *)
(***************************************************************************)
EXTENDS Integers, Sequences, FiniteSets

VARIABLES created, m, n, status, copayers, publicKeyRing, coin, network, derivationStrategy, addressType,
          addressManager, coldStakingSetup, last, issued, staked,
          stored, lock, procs, log, allLocked

vars == <<created, m, n, status, copayers, publicKeyRing, coin, network, derivationStrategy, addressType,
          addressManager, coldStakingSetup, last, issued, staked,
          stored, lock, procs, log, allLocked>>

\* the wallet object of the single-process model and its call history
objectVars == <<created, m, n, status, copayers, publicKeyRing, coin, network,
                derivationStrategy, addressType, addressManager,
                coldStakingSetup, last, issued, staked>>

\* the service around it: the stored wallet document, the per-wallet lock,
\* the service processes, the addresses they issued, and whether every
\* load/createAddress/save sequence so far held the lock
serviceVars == <<stored, lock, procs, log, allLocked>>

walletVars == <<m, n, status, copayers, publicKeyRing, coin, network, derivationStrategy, addressType,
                addressManager, coldStakingSetup>>

(* ------------------------------ bounds --------------------------------- *)
\* largest "small" value of opts.m / opts.n offered to Wallet.create
MaxN == 2
\* addCopayer is offered while copayers.length < MaxCopayers
MaxCopayers == 2
\* createAddress(es) is offered while receiveIndex + changeIndex < MaxIssued
MaxIssued == 2
\* the extended-key staking path is offered while address_index < MaxStakeIndex
MaxStakeIndex == 2
\* addCopayerRequestKey is offered while fewer than MaxRequestKeys were added
MaxRequestKeys == 2

(* --------------------------- program constants ------------------------- *)
\* upper limit of n in Wallet.verifyCopayerLimits
CopayerLimit == 15

\* Constants.COINS / Constants.NETWORKS (lib/common/constants.js)
COINS == {"btc", "bch", "part"}
NETWORKS == {"livenet", "testnet"}

\* Constants.DERIVATION_STRATEGIES.BIP45 and Constants.SCRIPT_TYPES.P2SH, the
\* defaults of Wallet.create and Wallet.fromObj, and Defaults.COIN
BIP45 == "BIP45"
P2SH == "P2SH"
DefaultCoin == "btc"

(* ------------------------------- inputs -------------------------------- *)
NInputs == (0 .. MaxN) \cup {CopayerLimit, CopayerLimit + 1}
\* the values of opts.m offered with opts.n = nn: 1 and MaxN for the n a
\* wallet can fill; below 1, 1 and above n for n at the limit; 1 otherwise
MInputs(nn) ==
  IF nn = 1 THEN {1}
  ELSE IF nn \in 2 .. MaxN THEN {1, MaxN}
  ELSE IF nn = CopayerLimit THEN {0, 1, CopayerLimit + 1}
  ELSE {1}
\* the copayer identities offered to addCopayer, and one nobody holds
CopayerIds == {1, 2}
UnknownCopayerId == 9
CoinInputs == {"btc", "part", "doge"}
NetworkInputs == {"livenet", "regtest"}
CopayerCoins == {"btc", "part"}

\* an option left out of opts (undefined, falsy)
NoOption == ""

\* the (derivationStrategy, addressType) options offered to Wallet.create;
\* the 1-of-1 wallets are also created with explicit non-default options
OptionInputs(mm, nn) ==
  IF mm = 1 /\ nn = 1
  THEN {<<NoOption, NoOption>>, <<"BIP44", "P2PKH">>}
  ELSE {<<NoOption, NoOption>>}

\* strings the code inspects by prefix are sequences of characters
PcsKey == <<"p", "c", "s", "1">>
TpcsKey == <<"t", "p", "c", "s", "1">>
XpubKey == <<"x", "p", "u", "b">>
BadKey == <<"p", "c", "x">>
NoStr == <<>>
SpendArg == <<"S">>

(* ------------------------------- values -------------------------------- *)
\* A value handed around as an address: undefined, a caller-supplied string,
\* an Address produced by Address.derive, or a staking address derived from
\* an extended public key.
Undefined == [kind |-> "undefined", str |-> NoStr, path |-> <<>>,
              isChange |-> FALSE, sha256 |-> FALSE]
Str(s) == [kind |-> "string", str |-> s, path |-> <<>>,
           isChange |-> FALSE, sha256 |-> FALSE]

\* Address.derive(id, addressType, publicKeyRing, path, m, coin, network,
\* isChange, sha256): a deterministic function of the path and the encoding
AddressDerive(path, isChange, sha256) ==
  [kind |-> "address", str |-> NoStr, path |-> path,
   isChange |-> isChange, sha256 |-> sha256]

\* HDPublicKey(staking_key).derive(i).publicKey.toAddress().toString()
HDDerive(key, i) ==
  [kind |-> "staking", str |-> key, path |-> <<i>>,
   isChange |-> FALSE, sha256 |-> FALSE]

\* JavaScript truthiness of such a value (undefined and '' are falsy)
Truthy(v) == v.kind # "undefined" /\ ~(v.kind = "string" /\ v.str = NoStr)

\* String.prototype.startsWith
startsWith(s, prefix) ==
  /\ Len(s) >= Len(prefix)
  /\ SubSeq(s, 1, Len(prefix)) = prefix

\* ParticlBitcore.HDPublicKey(arg) throws unless arg is an extended public key
IsHDPublicKey(s) == s = XpubKey

(* ------------------------------ copayers ------------------------------- *)
\* the copayer offered to addCopayer: Copayer.create output for identity i
Copayer(i, c) ==
  [id |-> i, coin |-> c, xPubKey |-> 100 + i, requestPubKey |-> 200 + i,
   requestPubKeys |-> <<[key |-> 200 + i, signature |-> 300 + i,
                         selfSigned |-> FALSE]>>]

\* the record of the latest call: the method, whether it returned (ok) or
\* threw, its arguments and the value it returned
NoCall == [op |-> "none", ok |-> TRUE, numeric |-> TRUE, m |-> 0, n |-> 0,
           coin |-> "", network |-> "", copayerId |-> 0, isChange |-> FALSE,
           spendAddress |-> Undefined, ret |-> <<>>]

\* the object {}: no staking_key, no spend_address, no address_index
\* (address_index is <<>> when absent and <<i>> when it holds i)
EmptySetup == [staking_key |-> NoStr, has_key |-> FALSE,
               spend_address |-> Undefined, address_index |-> <<>>]

\* a setup object that holds only a staking_key
SetupWithKey(k) == [EmptySetup EXCEPT !.staking_key = k, !.has_key = TRUE]

\* the objects offered to updateColdStakingSetup
SetupInputs ==
  {EmptySetup} \cup {SetupWithKey(k) : k \in {PcsKey, TpcsKey, XpubKey, BadKey}}

\* the values offered as the spendAddress argument
SpendInputs == {Undefined, Str(SpendArg)}

\* the service processes
Procs == {1, 2}

\* no wallet document: nothing saved, nothing loaded
NoDocument == [status |-> "none"]

(* ------------------------------- wallet -------------------------------- *)
Init ==
  /\ created = FALSE
  /\ m = 0
  /\ n = 0
  /\ status = "none"
  /\ copayers = <<>>
  /\ publicKeyRing = <<>>
  /\ coin = ""
  /\ network = ""
  /\ derivationStrategy = ""
  /\ addressType = ""
  /\ addressManager = [receiveIndex |-> 0, changeIndex |-> 0,
                       coldStakingIndex |-> 0]
  /\ coldStakingSetup = EmptySetup
  /\ last = NoCall
  /\ issued = {}
  /\ staked = {}
  /\ stored = NoDocument
  /\ lock = 0
  /\ procs = [p \in Procs |-> [pc |-> "idle", w |-> NoDocument]]
  /\ log = <<>>
  /\ allLocked = TRUE

\* Wallet.verifyCopayerLimits
verifyCopayerLimits(mm, nn) ==
  (nn >= 1 /\ nn <= CopayerLimit) /\ (mm >= 1 /\ mm <= nn)

\* Utils.checkValueInCollection
checkValueInCollection(v, coll) == v \in coll

\* the checks Wallet.create makes before it builds the wallet
CreateChecks(mIsNumber, nIsNumber, c, net) ==
  /\ mIsNumber
  /\ nIsNumber
  /\ checkValueInCollection(c, COINS)
  /\ checkValueInCollection(net, NETWORKS)

\* AddressManager.create
AddressManagerCreate ==
  [receiveIndex |-> 0, changeIndex |-> 0, coldStakingIndex |-> 0]

\* `value || fallback` on a string option
OrDefault(value, fallback) == IF value # "" THEN value ELSE fallback

\* Wallet.create(opts)
Create(mIsNumber, mm, nIsNumber, nn, c, net, strategy, type) ==
  /\ ~created
  /\ UNCHANGED serviceVars
  /\ last' = [NoCall EXCEPT !.op = "create", !.m = mm, !.n = nn, !.coin = c,
                            !.network = net,
                            !.numeric = (mIsNumber /\ nIsNumber),
                            !.ok = CreateChecks(mIsNumber, nIsNumber, c, net)]
  /\ IF CreateChecks(mIsNumber, nIsNumber, c, net)
     THEN /\ created' = TRUE
          /\ m' = mm
          /\ n' = nn
          /\ status' = "pending"
          /\ publicKeyRing' = <<>>
          /\ copayers' = <<>>
          /\ coin' = c
          /\ network' = net
          /\ derivationStrategy' = OrDefault(strategy, BIP45)
          /\ addressType' = OrDefault(type, P2SH)
          /\ addressManager' = AddressManagerCreate
          /\ coldStakingSetup' = EmptySetup
          /\ UNCHANGED <<issued, staked>>
     ELSE UNCHANGED <<created, walletVars, issued, staked>>

\* _updatePublicKeyRing run before the push: the ring misses the new copayer
updatePublicKeyRing_stale(cs) ==
  [i \in 1 .. (Len(cs) - 1) |->
     [xPubKey |-> cs[i].xPubKey, requestPubKey |-> cs[i].requestPubKey]]

\* Wallet.prototype._updatePublicKeyRing, applied to a copayers list
updatePublicKeyRing(cs) ==
  [i \in 1 .. Len(cs) |->
     [xPubKey |-> cs[i].xPubKey, requestPubKey |-> cs[i].requestPubKey]]

\* copayer identities are opaque to the wallet, so the first copayer offered
\* to an empty wallet is always identity 1; later ones are any identity, a
\* repeated one included
FirstJoinsAsOne(copayer) == copayers = <<>> => copayer.id = 1

\* addCopayer without the coin check of its first line
addCopayer_noCoinCheck(copayer) ==
  /\ created
  /\ UNCHANGED serviceVars
  /\ Len(copayers) < MaxCopayers
  /\ FirstJoinsAsOne(copayer)
  /\ copayers' = Append(copayers, copayer)
  /\ IF Len(copayers') < n
     THEN UNCHANGED <<status, publicKeyRing>>
     ELSE /\ status' = "complete"
          /\ publicKeyRing' = updatePublicKeyRing(copayers')
  /\ last' = [NoCall EXCEPT !.op = "addCopayer", !.coin = copayer.coin,
                            !.copayerId = copayer.id]
  /\ UNCHANGED <<created, m, n, coin, network, derivationStrategy, addressType, addressManager,
                 coldStakingSetup, issued, staked>>

\* addCopayer that sets the status from the comparison with n on every call
addCopayer_recomputeStatus(copayer) ==
  /\ created
  /\ UNCHANGED serviceVars
  /\ Len(copayers) < MaxCopayers
  /\ FirstJoinsAsOne(copayer)
  /\ IF copayer.coin = coin
     THEN /\ copayers' = Append(copayers, copayer)
          /\ status' = IF Len(copayers') = n THEN "complete" ELSE "pending"
          /\ IF Len(copayers') < n
             THEN UNCHANGED publicKeyRing
             ELSE publicKeyRing' = updatePublicKeyRing(copayers')
          /\ last' = [NoCall EXCEPT !.op = "addCopayer",
                                    !.coin = copayer.coin,
                                    !.copayerId = copayer.id]
     ELSE /\ UNCHANGED <<copayers, status, publicKeyRing>>
          /\ last' = [NoCall EXCEPT !.op = "addCopayer", !.ok = FALSE,
                                    !.coin = copayer.coin,
                                    !.copayerId = copayer.id]
  /\ UNCHANGED <<created, m, n, coin, network, derivationStrategy, addressType, addressManager,
                 coldStakingSetup, issued, staked>>

\* Wallet.prototype.addCopayer(copayer)
addCopayer(copayer) ==
  /\ created
  /\ UNCHANGED serviceVars
  /\ Len(copayers) < MaxCopayers
  /\ FirstJoinsAsOne(copayer)
  /\ IF copayer.coin = coin
     THEN /\ copayers' = Append(copayers, copayer)
          /\ IF Len(copayers') < n
             THEN UNCHANGED <<status, publicKeyRing>>
             ELSE /\ status' = "complete"
                  /\ publicKeyRing' = updatePublicKeyRing(copayers')
          /\ last' = [NoCall EXCEPT !.op = "addCopayer",
                                    !.coin = copayer.coin,
                                    !.copayerId = copayer.id]
     ELSE /\ UNCHANGED <<copayers, status, publicKeyRing>>
          /\ last' = [NoCall EXCEPT !.op = "addCopayer", !.ok = FALSE,
                                    !.coin = copayer.coin,
                                    !.copayerId = copayer.id]
  /\ UNCHANGED <<created, m, n, coin, network, derivationStrategy, addressType, addressManager,
                 coldStakingSetup, issued, staked>>

\* Wallet.prototype.getCopayer: position of the first copayer with this id,
\* 0 when _.find returns undefined
getCopayer(copayerId) ==
  IF \E i \in 1 .. Len(copayers) : copayers[i].id = copayerId
  THEN CHOOSE i \in 1 .. Len(copayers) :
         /\ copayers[i].id = copayerId
         /\ \A j \in 1 .. (i - 1) : copayers[j].id # copayerId
  ELSE 0

\* request keys added by addCopayerRequestKey so far
AddedRequestKeys ==
  Cardinality({<<i, j>> \in (1 .. Len(copayers)) \X (1 .. MaxRequestKeys + 2) :
                 /\ j <= Len(copayers[i].requestPubKeys)
                 /\ copayers[i].requestPubKeys[j].selfSigned})

\* the request key and signature offered to the next addCopayerRequestKey
\* call: every call brings a key no record holds yet
NewRequestKey == 250 + AddedRequestKeys
NewSignature == 350 + AddedRequestKeys

\* addCopayerRequestKey that pushes the new record after the older ones
addCopayerRequestKey_push(copayerId, requestPubKey, signature) ==
  /\ created
  /\ UNCHANGED serviceVars
  /\ AddedRequestKeys < MaxRequestKeys
  /\ LET c == getCopayer(copayerId)
         okCall == Len(copayers) = n /\ c # 0
     IN /\ copayers' =
             IF okCall
             THEN [copayers EXCEPT ![c].requestPubKeys =
                     @ \o <<[key |-> requestPubKey, signature |-> signature,
                             selfSigned |-> TRUE]>>]
             ELSE copayers
        /\ last' = [NoCall EXCEPT !.op = "addCopayerRequestKey",
                                  !.ok = okCall, !.copayerId = copayerId]
  /\ UNCHANGED <<created, m, n, status, publicKeyRing, coin, network, derivationStrategy, addressType,
                 addressManager, coldStakingSetup, issued, staked>>

\* Wallet.prototype.addCopayerRequestKey(copayerId, requestPubKey, signature)
addCopayerRequestKey(copayerId, requestPubKey, signature) ==
  /\ created
  /\ UNCHANGED serviceVars
  /\ AddedRequestKeys < MaxRequestKeys
  /\ LET c == getCopayer(copayerId)
         okCall == Len(copayers) = n /\ c # 0
     IN /\ copayers' =
             IF okCall
             THEN [copayers EXCEPT ![c].requestPubKeys =
                     <<[key |-> requestPubKey, signature |-> signature,
                        selfSigned |-> TRUE]>> \o @]
             ELSE copayers
        /\ last' = [NoCall EXCEPT !.op = "addCopayerRequestKey",
                                  !.ok = okCall, !.copayerId = copayerId]
  /\ UNCHANGED <<created, m, n, status, publicKeyRing, coin, network, derivationStrategy, addressType,
                 addressManager, coldStakingSetup, issued, staked>>

\* isComplete that accepts every wallet, complete or not
isComplete_always == status \in {"pending", "complete"}

\* Wallet.prototype.isComplete
isComplete == status = "complete"

\* AddressManager.getNewAddressPath(isChange) on address manager am: the
\* path (branch, index) of the next unused index and the advanced manager
getNewAddressPath(am, isChange) ==
  IF isChange
  THEN [path |-> <<1, am.changeIndex>>,
        am |-> [am EXCEPT !.changeIndex = @ + 1]]
  ELSE [path |-> <<0, am.receiveIndex>>,
        am |-> [am EXCEPT !.receiveIndex = @ + 1]]

\* createAddress that reads the current path and leaves the manager as it is
createAddressOn_noAdvance(am, isChange, sha256) ==
  IF ~isComplete
  THEN [ok |-> FALSE, am |-> am, address |-> Undefined, paths |-> {}]
  ELSE LET p == getNewAddressPath(am, isChange)
       IN [ok |-> TRUE, am |-> am,
           address |-> AddressDerive(p.path, isChange, sha256),
           paths |-> {p.path}]

\* the body of Wallet.prototype.createAddress(isChange, sha256) run on
\* address manager am: whether it returned, the manager afterwards, the
\* address returned and the paths taken from the manager
createAddressOn(am, isChange, sha256) ==
  IF ~isComplete
  THEN [ok |-> FALSE, am |-> am, address |-> Undefined, paths |-> {}]
  ELSE LET p == getNewAddressPath(am, isChange)
       IN [ok |-> TRUE, am |-> p.am,
           address |-> AddressDerive(p.path, isChange, sha256),
           paths |-> {p.path}]

\* createAddress(es) is offered while the manager is below the bound
BelowIssueBound ==
  addressManager.receiveIndex + addressManager.changeIndex < MaxIssued

\* Wallet.prototype.createAddress(isChange, sha256)
createAddress(isChange, sha256) ==
  /\ created
  /\ UNCHANGED serviceVars
  /\ BelowIssueBound
  /\ LET r == createAddressOn(addressManager, isChange, sha256)
     IN /\ addressManager' = r.am
        /\ issued' = issued \cup r.paths
        /\ last' = [NoCall EXCEPT !.op = "createAddress", !.ok = r.ok,
                                  !.isChange = isChange,
                                  !.ret = IF r.ok THEN <<r.address>> ELSE <<>>]
  /\ UNCHANGED <<created, m, n, status, copayers, publicKeyRing, coin,
                 network, derivationStrategy, addressType, coldStakingSetup, staked>>

\* createAddresses that takes a new path for the second encoding
createAddressesOn_twoPaths(am, isChange, derive256Throws) ==
  LET p == getNewAddressPath(am, isChange)
      q == getNewAddressPath(p.am, isChange)
      first == AddressDerive(p.path, isChange, FALSE)
      second == AddressDerive(q.path, isChange, TRUE)
  IN IF coin # "part"
     THEN [ok |-> TRUE, am |-> p.am, paths |-> {p.path}, ret |-> <<first>>]
     ELSE IF derive256Throws
     THEN [ok |-> FALSE, am |-> q.am, paths |-> {p.path, q.path},
           ret |-> <<>>]
     ELSE [ok |-> TRUE, am |-> q.am, paths |-> {p.path, q.path},
           ret |-> <<first, second>>]

\* createAddresses that gives the index back when the second derivation
\* throws
createAddressesOn_rollback(am, isChange, derive256Throws) ==
  LET p == getNewAddressPath(am, isChange)
      first == AddressDerive(p.path, isChange, FALSE)
      second == AddressDerive(p.path, isChange, TRUE)
  IN IF coin # "part"
     THEN [ok |-> TRUE, am |-> p.am, paths |-> {p.path}, ret |-> <<first>>]
     ELSE IF derive256Throws
     THEN [ok |-> FALSE, am |-> am, paths |-> {}, ret |-> <<>>]
     ELSE [ok |-> TRUE, am |-> p.am, paths |-> {p.path},
           ret |-> <<first, second>>]

\* the body of Wallet.prototype.createAddresses(isChange) after its state
\* check, run on address manager am: the manager afterwards, the paths taken
\* from it and the list of addresses returned.  derive256Throws is the
\* outcome of the second Address.derive (the sha256 encoding, made only when
\* coin is 'part'): when it throws, the call throws after the path was taken
\* and returns nothing.
createAddressesOn(am, isChange, derive256Throws) ==
  LET p == getNewAddressPath(am, isChange)
      first == AddressDerive(p.path, isChange, FALSE)
      second == AddressDerive(p.path, isChange, TRUE)
  IN IF coin # "part"
     THEN [ok |-> TRUE, am |-> p.am, paths |-> {p.path}, ret |-> <<first>>]
     ELSE IF derive256Throws
     THEN [ok |-> FALSE, am |-> p.am, paths |-> {p.path}, ret |-> <<>>]
     ELSE [ok |-> TRUE, am |-> p.am, paths |-> {p.path},
           ret |-> <<first, second>>]

\* Wallet.prototype.createAddresses(isChange); derive256Throws is whether the
\* second Address.derive of the call throws (it is called, and so can throw,
\* only when coin is 'part')
createAddresses(isChange, derive256Throws) ==
  /\ created
  /\ UNCHANGED serviceVars
  /\ BelowIssueBound
  /\ derive256Throws => coin = "part"
  /\ IF ~isComplete
     THEN /\ UNCHANGED <<addressManager, issued>>
          /\ last' = [NoCall EXCEPT !.op = "createAddresses", !.ok = FALSE,
                                    !.isChange = isChange]
     ELSE LET r == createAddressesOn(addressManager, isChange,
                                     derive256Throws)
          IN /\ addressManager' = r.am
             /\ issued' = issued \cup r.paths
             /\ last' = [NoCall EXCEPT !.op = "createAddresses",
                                       !.ok = r.ok,
                                       !.isChange = isChange, !.ret = r.ret]
  /\ UNCHANGED <<created, m, n, status, copayers, publicKeyRing, coin,
                 network, derivationStrategy, addressType, coldStakingSetup, staked>>

\* Wallet.prototype.updateColdStakingSetup(coldStakingSetup)
updateColdStakingSetup(setup) ==
  /\ created
  /\ UNCHANGED serviceVars
  /\ coldStakingSetup' = setup
  /\ last' = [NoCall EXCEPT !.op = "updateColdStakingSetup"]
  /\ UNCHANGED <<created, m, n, status, copayers, publicKeyRing, coin,
                 network, derivationStrategy, addressType, addressManager, issued, staked>>

\* the emptiness test left out: no setup is taken as empty
isEmpty_never(setup) == FALSE

\* _.isEmpty of a setup object
isEmpty(setup) ==
  /\ ~setup.has_key
  /\ setup.spend_address.kind = "undefined"
  /\ setup.address_index = <<>>

\* the cache test left out: no spend address is ever taken as cached
spendCached_never(setup) == FALSE

\* the test `self.coldStakingSetup.spend_address` is truthy: a spend address
\* is cached in the setup
spendCached(setup) == Truthy(setup.spend_address)

\* the spendAddress argument ignored: a spend address is always derived
spendSupplied_never(spendAddress) == FALSE

\* the left operand of `spendAddress || self.createAddress(true, true)` is
\* truthy: the caller supplied the spend address
spendSupplied(spendAddress) == Truthy(spendAddress)

\* address_index taken to start at 1 when it is absent
startIndex_fromOne(setup) ==
  IF setup.address_index = <<>> THEN 1 ELSE setup.address_index[1]

\* the value of address_index the extended-key path starts from: absent and
\* 0 are both falsy and both give 0
startIndex(setup) ==
  IF setup.address_index = <<>> THEN 0 ELSE setup.address_index[1]

\* the outcome of Wallet.prototype.getColdStakingAddresses(spendAddress):
\* whether it returned, the setup and address manager it leaves, the object
\* it returns (<<>> for {}, <<staking_address, spend_address>> otherwise),
\* the paths it took from the address manager and the indices at which it
\* derived a staking address from the extended key
coldStakingOutcome(spendAddress) ==
  LET setup == coldStakingSetup
      am == addressManager
      derived == createAddressOn(am, TRUE, TRUE)
      same == [ok |-> TRUE, setup |-> setup, am |-> am, ret |-> <<>>,
               paths |-> {}, staked |-> {}]
      thrown == [same EXCEPT !.ok = FALSE]
  IN
  IF coin # "part" \/ isEmpty(setup) THEN same
  ELSE IF ~setup.has_key THEN thrown
  ELSE IF startsWith(setup.staking_key, <<"p", "c", "s">>)
          \/ startsWith(setup.staking_key, <<"t", "p", "c", "s">>)
  THEN IF spendCached(setup)
       THEN [same EXCEPT !.ret = <<Str(setup.staking_key),
                                   setup.spend_address>>]
       ELSE IF spendSupplied(spendAddress)
       THEN [same EXCEPT
               !.setup = [setup EXCEPT !.spend_address = spendAddress],
               !.ret = <<Str(setup.staking_key), spendAddress>>]
       ELSE IF ~derived.ok THEN thrown
       ELSE [same EXCEPT
               !.setup = [setup EXCEPT !.spend_address = derived.address],
               !.am = derived.am,
               !.paths = derived.paths,
               !.ret = <<Str(setup.staking_key), derived.address>>]
  ELSE IF ~IsHDPublicKey(setup.staking_key) THEN thrown
  ELSE LET i == startIndex(setup)
           advanced == [setup EXCEPT !.address_index = <<i + 1>>]
           staking == HDDerive(setup.staking_key, i)
       IN IF spendSupplied(spendAddress)
          THEN [same EXCEPT !.setup = advanced,
                            !.staked = {i},
                            !.ret = <<staking, spendAddress>>]
          ELSE IF ~derived.ok
          THEN [thrown EXCEPT !.setup = advanced, !.staked = {i}]
          ELSE [same EXCEPT !.setup = advanced,
                            !.staked = {i},
                            !.am = derived.am,
                            !.paths = derived.paths,
                            !.ret = <<staking, derived.address>>]

\* Wallet.prototype.getColdStakingAddresses(spendAddress)
getColdStakingAddresses(spendAddress) ==
  /\ created
  /\ UNCHANGED serviceVars
  /\ BelowIssueBound
  /\ startIndex(coldStakingSetup) < MaxStakeIndex
  /\ LET r == coldStakingOutcome(spendAddress)
     IN /\ coldStakingSetup' = r.setup
        /\ addressManager' = r.am
        /\ issued' = issued \cup r.paths
        /\ staked' = staked \cup r.staked
        /\ last' = [NoCall EXCEPT !.op = "getColdStakingAddresses",
                                  !.ok = r.ok, !.spendAddress = spendAddress,
                                  !.ret = r.ret]
  /\ UNCHANGED <<created, m, n, status, copayers, publicKeyRing, coin,
                 network, derivationStrategy, addressType>>

\* the wallet object `this`: the fields Wallet.create sets that the model
\* keeps (addressIndex is <<0>> when set, <<>> when the object has none)
ThisWallet ==
  [m |-> m, n |-> n, status |-> status, publicKeyRing |-> publicKeyRing,
   addressIndex |-> <<0>>, copayers |-> copayers, coin |-> coin,
   network |-> network, derivationStrategy |-> derivationStrategy,
   addressType |-> addressType, addressManager |-> addressManager,
   coldStakingSetup |-> coldStakingSetup]

\* Wallet.prototype.isShared, of wallet object w
isShared(w) == w.n > 1

\* Wallet.prototype.toObject, of wallet object w: a deep clone of every
\* field, plus isShared
toObject(w) ==
  [m |-> w.m, n |-> w.n, status |-> w.status,
   publicKeyRing |-> w.publicKeyRing, addressIndex |-> w.addressIndex,
   copayers |-> w.copayers, coin |-> w.coin, network |-> w.network,
   derivationStrategy |-> w.derivationStrategy,
   addressType |-> w.addressType, addressManager |-> w.addressManager,
   coldStakingSetup |-> w.coldStakingSetup, isShared |-> isShared(w)]

\* Copayer.fromObj
CopayerFromObj(obj) ==
  [id |-> obj.id, coin |-> obj.coin, xPubKey |-> obj.xPubKey,
   requestPubKey |-> obj.requestPubKey,
   requestPubKeys |-> obj.requestPubKeys]

\* AddressManager.fromObj
AddressManagerFromObj(obj) ==
  [receiveIndex |-> obj.receiveIndex, changeIndex |-> obj.changeIndex,
   coldStakingIndex |-> obj.coldStakingIndex]

\* Wallet.fromObj of the wallet model without cold staking: the setup of the
\* document is not read
fromObj_noColdStaking(obj) ==
  [m |-> obj.m, n |-> obj.n, status |-> obj.status,
   publicKeyRing |-> obj.publicKeyRing, addressIndex |-> <<>>,
   copayers |-> [i \in 1 .. Len(obj.copayers) |->
                   CopayerFromObj(obj.copayers[i])],
   coin |-> OrDefault(obj.coin, DefaultCoin), network |-> obj.network,
   derivationStrategy |-> OrDefault(obj.derivationStrategy, BIP45),
   addressType |-> OrDefault(obj.addressType, P2SH),
   addressManager |-> AddressManagerFromObj(obj.addressManager),
   coldStakingSetup |-> EmptySetup]

\* Wallet.fromObj that builds a new address manager instead of reading the
\* document's
fromObj_newManager(obj) ==
  [m |-> obj.m, n |-> obj.n, status |-> obj.status,
   publicKeyRing |-> obj.publicKeyRing, addressIndex |-> <<>>,
   copayers |-> [i \in 1 .. Len(obj.copayers) |->
                   CopayerFromObj(obj.copayers[i])],
   coin |-> OrDefault(obj.coin, DefaultCoin), network |-> obj.network,
   derivationStrategy |-> OrDefault(obj.derivationStrategy, BIP45),
   addressType |-> OrDefault(obj.addressType, P2SH),
   addressManager |-> AddressManagerCreate,
   coldStakingSetup |-> obj.coldStakingSetup]

\* Wallet.fromObj(obj): the wallet object built from a document (it sets no
\* addressIndex)
fromObj(obj) ==
  [m |-> obj.m, n |-> obj.n, status |-> obj.status,
   publicKeyRing |-> obj.publicKeyRing, addressIndex |-> <<>>,
   copayers |-> [i \in 1 .. Len(obj.copayers) |->
                   CopayerFromObj(obj.copayers[i])],
   coin |-> OrDefault(obj.coin, DefaultCoin), network |-> obj.network,
   derivationStrategy |-> OrDefault(obj.derivationStrategy, BIP45),
   addressType |-> OrDefault(obj.addressType, P2SH),
   addressManager |-> AddressManagerFromObj(obj.addressManager),
   coldStakingSetup |-> obj.coldStakingSetup]

(* ------------------------------ service ------------------------------- *)
\* Several service processes share one stored wallet document.  Each runs
\* load (Wallet.fromObj) / createAddress / save (toObject), either inside
\* the per-wallet lock or bypassing it.

\* the service starts with a complete 1-of-1 wallet saved in the store
InitService ==
  /\ created = TRUE
  /\ m = 1
  /\ n = 1
  /\ status = "complete"
  /\ copayers = <<Copayer(1, "btc")>>
  /\ publicKeyRing = updatePublicKeyRing(copayers)
  /\ coin = "btc"
  /\ network = "livenet"
  /\ derivationStrategy = BIP45
  /\ addressType = P2SH
  /\ addressManager = AddressManagerCreate
  /\ coldStakingSetup = EmptySetup
  /\ last = NoCall
  /\ issued = {}
  /\ staked = {}
  /\ stored = toObject(ThisWallet)
  /\ lock = 0
  /\ procs = [p \in Procs |-> [pc |-> "idle", w |-> NoDocument]]
  /\ log = <<>>
  /\ allLocked = TRUE

\* sequences in progress
Running == {p \in Procs : procs[p].pc # "idle"}

\* a new sequence is offered while fewer than MaxIssued addresses are
\* issued or about to be
BelowServiceBound == Len(log) + Cardinality(Running) < MaxIssued

\* lock acquire(walletId) that is granted while another process holds it
Acquire_notExclusive(p) ==
  /\ procs[p].pc = "idle"
  /\ BelowServiceBound
  /\ lock' = p
  /\ procs' = [procs EXCEPT ![p].pc = "ready"]
  /\ UNCHANGED <<objectVars, stored, log, allLocked>>

\* lock acquire(walletId): granted only while nobody holds the lock
Acquire(p) ==
  /\ procs[p].pc = "idle"
  /\ BelowServiceBound
  /\ lock = 0
  /\ lock' = p
  /\ procs' = [procs EXCEPT ![p].pc = "ready"]
  /\ UNCHANGED <<objectVars, stored, log, allLocked>>

\* a sequence started without the lock
Bypass(p) ==
  /\ procs[p].pc = "idle"
  /\ BelowServiceBound
  /\ procs' = [procs EXCEPT ![p].pc = "ready"]
  /\ allLocked' = FALSE
  /\ UNCHANGED <<objectVars, stored, lock, log>>

\* load: Wallet.fromObj of the stored document
Load(p) ==
  /\ procs[p].pc = "ready"
  /\ procs' = [procs EXCEPT ![p].pc = "loaded", ![p].w = fromObj(stored)]
  /\ UNCHANGED <<objectVars, stored, lock, log, allLocked>>

\* Wallet.prototype.createAddress(isChange) on the wallet the process loaded
ProcessCreateAddress(p, isChange) ==
  /\ procs[p].pc = "loaded"
  /\ procs[p].w.status = status
  /\ LET r == createAddressOn(procs[p].w.addressManager, isChange, FALSE)
     IN /\ r.ok
        /\ procs' = [procs EXCEPT ![p].pc = "mutated",
                                  ![p].w.addressManager = r.am]
        /\ log' = Append(log, r.address.path)
  /\ UNCHANGED <<objectVars, stored, lock, allLocked>>

\* save: the document of the wallet the process holds replaces the stored one
Save(p) ==
  /\ procs[p].pc = "mutated"
  /\ stored' = toObject(procs[p].w)
  /\ procs' = [procs EXCEPT ![p].pc = "saved"]
  /\ UNCHANGED <<objectVars, lock, log, allLocked>>

\* lock release(lockHandle) at the end of the sequence, when it holds one
Release(p) ==
  /\ procs[p].pc = "saved"
  /\ lock' = IF lock = p THEN 0 ELSE lock
  /\ procs' = [procs EXCEPT ![p].pc = "idle"]
  /\ UNCHANGED <<objectVars, stored, log, allLocked>>

NextService ==
  \/ \E p \in Procs : Acquire(p)
  \/ \E p \in Procs : Bypass(p)
  \/ \E p \in Procs : Load(p)
  \/ \E p \in Procs, isChange \in BOOLEAN : ProcessCreateAddress(p, isChange)
  \/ \E p \in Procs : Save(p)
  \/ \E p \in Procs : Release(p)

SpecService == InitService /\ [][NextService]_vars

Next ==
  \/ \E mIsNumber, nIsNumber \in BOOLEAN, nn \in NInputs,
        c \in CoinInputs, net \in NetworkInputs :
       \E mm \in MInputs(nn) : \E o \in OptionInputs(mm, nn) :
         Create(mIsNumber, mm, nIsNumber, nn, c, net, o[1], o[2])
  \/ \E i \in CopayerIds, c \in CopayerCoins : addCopayer(Copayer(i, c))
  \/ \E i \in CopayerIds \cup {UnknownCopayerId} :
       addCopayerRequestKey(i, NewRequestKey, NewSignature)
  \/ \E isChange, sha256 \in BOOLEAN : createAddress(isChange, sha256)
  \/ \E isChange, derive256Throws \in BOOLEAN :
       createAddresses(isChange, derive256Throws)
  \/ \E setup \in SetupInputs : updateColdStakingSetup(setup)
  \/ \E spendAddress \in SpendInputs : getColdStakingAddresses(spendAddress)

Spec == Init /\ [][Next]_vars

(* ------------------------------- claims -------------------------------- *)
\* the projection _.pick(copayer, ['xPubKey', 'requestPubKey'])
KeyPair(c) == [xPubKey |-> c.xPubKey, requestPubKey |-> c.requestPubKey]

\* C1: Wallet.create called with numeric m, n and a supported coin and
\* network succeeds exactly when 1 <= m <= n <= 15; outside that range it
\* fails and produces no wallet.  (Stated as the claim; the code violates it.)
C1_CreateChecksLimits ==
  (/\ last.op = "create"
   /\ last.numeric
   /\ last.coin \in COINS
   /\ last.network \in NETWORKS)
  => /\ last.ok <=> (1 <= last.m /\ last.m <= last.n /\ last.n <= 15)
     /\ created <=> last.ok

\* C2: in every state of a wallet created within the limits 1 <= m <= n <= 15,
\* status is 'complete' if and only if copayers.length == n.  (Stated as the
\* claim; the code violates it.)
C2_CompleteIffFull ==
  (created /\ 1 <= m /\ m <= n /\ n <= 15)
  => (status = "complete" <=> Len(copayers) = n)

\* C3: for a wallet created within the limits, status becomes 'complete' in
\* a step exactly when that step is the addCopayer that makes
\* copayers.length == n (so never earlier and at most once), and in every
\* complete state publicKeyRing has length n and its i-th entry is the key
\* pair of the i-th copayer.  (Stated as the claim; the code violates it.)
C3_CompletesAtNthCopayer ==
  /\ [][(created /\ 1 <= m /\ m <= n /\ n <= 15)
        => ((status = "pending" /\ status' = "complete")
            <=> (/\ last'.op = "addCopayer"
                 /\ last'.ok
                 /\ Len(copayers) = n - 1
                 /\ Len(copayers') = n))]_vars
  /\ []((created /\ 1 <= m /\ m <= n /\ n <= 15 /\ status = "complete")
        => /\ Len(publicKeyRing) = n
           /\ \A i \in 1 .. n : publicKeyRing[i] = KeyPair(copayers[i]))

\* C4: once a wallet created within the limits is complete no operation changes the copayers list
\* (who is a member, in which order) or publicKeyRing.  (Stated as the claim;
\* the code violates it.)
C4_MembershipImmutable ==
  [][(status = "complete" /\ 1 <= m /\ m <= n /\ n <= 15)
     => /\ updatePublicKeyRing(copayers') = updatePublicKeyRing(copayers)
        /\ [i \in 1 .. Len(copayers') |-> copayers'[i].id]
             = [i \in 1 .. Len(copayers) |-> copayers[i].id]
        /\ publicKeyRing' = publicKeyRing]_vars

\* C5 as claimed: publicKeyRing.length == copayers.length in every reachable
\* state of a wallet, pending states included.
C5_RingLengthAlways == created => Len(publicKeyRing) = Len(copayers)

\* C5 amended: while the wallet is pending publicKeyRing is empty, and in
\* every complete state publicKeyRing.length == copayers.length.
C5_RingLengthWhenComplete ==
  created
  => /\ status = "pending" => publicKeyRing = <<>>
     /\ status = "complete" => Len(publicKeyRing) = Len(copayers)

\* a complete wallet of two copayers: the ring was recomputed at completion
C5_Witness ==
  /\ status = "complete"
  /\ Len(copayers) = 2
  /\ Len(publicKeyRing) = 2
  /\ last.op = "addCopayer"

\* C6: addCopayer with copayer.coin different from the wallet's coin fails
\* and leaves copayers, status and publicKeyRing as they were, in any state.
C6_CoinMismatchRejected ==
  [][(created /\ last'.op = "addCopayer" /\ last'.coin # coin)
     => /\ ~last'.ok
        /\ UNCHANGED <<copayers, status, publicKeyRing>>]_vars

\* a wallet that holds a copayer and has just rejected one of another coin
C6_Witness ==
  /\ last.op = "addCopayer"
  /\ ~last.ok
  /\ last.coin # coin
  /\ Len(copayers) >= 1

\* the branch number of a path and the counter of a branch
Branch(isChange) == IF isChange THEN 1 ELSE 0
Counter(am, isChange) == IF isChange THEN am.changeIndex ELSE am.receiveIndex

\* C7: no step decreases a counter, and every successful createAddress or
\* createAddresses call issues one path of the chosen branch whose index was
\* never issued before and is larger than every index issued on that branch,
\* advances that branch's counter by exactly one and leaves the other
\* branch's counter alone.
C7_OneIndexPerAddress ==
  [][/\ addressManager'.receiveIndex >= addressManager.receiveIndex
     /\ addressManager'.changeIndex >= addressManager.changeIndex
     /\ (last'.op \in {"createAddress", "createAddresses"} /\ last'.ok)
        => LET b == last'.isChange
               p == last'.ret[1].path
           IN /\ status = "complete"
              /\ p = <<Branch(b), Counter(addressManager, b)>>
              /\ p \notin issued
              /\ \A q \in issued : q[1] = p[1] => q[2] < p[2]
              /\ \A i \in 1 .. Len(last'.ret) : last'.ret[i].path = p
              /\ Counter(addressManager', b) = Counter(addressManager, b) + 1
              /\ Counter(addressManager', ~b) = Counter(addressManager, ~b)
    ]_vars

\* two createAddress calls on the change branch were issued indices 0 and 1
C7_Witness ==
  /\ last.op = "createAddress"
  /\ last.ok
  /\ last.ret[1].path = <<1, 1>>
  /\ issued = {<<1, 0>>, <<1, 1>>}
  /\ addressManager.changeIndex = 2

\* C8: createAddress and createAddresses on a pending wallet fail and leave
\* the receive, change and cold-staking counters as they were.
C8_PendingWalletIssuesNothing ==
  [][(last'.op \in {"createAddress", "createAddresses"} /\ status = "pending")
     => /\ ~last'.ok
        /\ last'.ret = <<>>
        /\ UNCHANGED <<addressManager, coldStakingSetup, issued>>]_vars

\* a pending wallet with a copayer has just refused createAddresses
C8_Witness ==
  /\ last.op = "createAddresses"
  /\ ~last.ok
  /\ status = "pending"
  /\ Len(copayers) >= 1
  /\ addressManager = AddressManagerCreate

\* C9: a successful createAddresses(isChange) advances the chosen branch's
\* counter by exactly 1; on a 'part' wallet it returns exactly two addresses
\* of the same path that differ only in encoding, on any other coin exactly
\* one address.
C9_TwoEncodingsOnePath ==
  [][(last'.op = "createAddresses" /\ last'.ok)
     => LET b == last'.isChange
            r == last'.ret
        IN /\ Counter(addressManager', b) = Counter(addressManager, b) + 1
           /\ Counter(addressManager', ~b) = Counter(addressManager, ~b)
           /\ r[1].path = <<Branch(b), Counter(addressManager, b)>>
           /\ IF coin = "part"
              THEN /\ Len(r) = 2
                   /\ r[1].path = r[2].path
                   /\ r[1].sha256 # r[2].sha256
                   /\ [r[1] EXCEPT !.sha256 = r[2].sha256] = r[2]
              ELSE Len(r) = 1]_vars

\* a 'part' wallet has returned two addresses for one receive index
C9_Witness ==
  /\ last.op = "createAddresses"
  /\ last.ok
  /\ coin = "part"
  /\ Len(last.ret) = 2
  /\ ~last.isChange
  /\ addressManager.receiveIndex = 1

\* the setup's staking_key starts with a recognized staking prefix
HasStakingPrefix(setup) ==
  /\ setup.has_key
  /\ \/ startsWith(setup.staking_key, <<"p", "c", "s">>)
     \/ startsWith(setup.staking_key, <<"t", "p", "c", "s">>)

\* C10 as claimed: on a 'part' wallet whose staking_key has a staking prefix
\* a successful getColdStakingAddresses returns staking_key verbatim; the
\* call that finds no cached spend_address derives one, consuming one change
\* index, and stores it; a call that finds one cached returns it, whatever
\* its argument, and advances no counter.
C10_FirstCallDerives ==
  [][(/\ last'.op = "getColdStakingAddresses"
      /\ last'.ok
      /\ coin = "part"
      /\ HasStakingPrefix(coldStakingSetup))
     => /\ last'.ret[1] = Str(coldStakingSetup.staking_key)
        /\ IF ~Truthy(coldStakingSetup.spend_address)
           THEN /\ last'.ret[2].kind = "address"
                /\ addressManager' =
                     [addressManager EXCEPT !.changeIndex = @ + 1]
                /\ coldStakingSetup' =
                     [coldStakingSetup EXCEPT !.spend_address = last'.ret[2]]
           ELSE /\ last'.ret[2] = coldStakingSetup.spend_address
                /\ UNCHANGED <<addressManager, coldStakingSetup>>]_vars

\* C10 amended: as claimed, except that the call that finds no cached
\* spend_address stores and returns its spendAddress argument when one is
\* given, advancing no counter, and derives a spend address (on a complete
\* wallet, consuming one change index) only when none is given.
C10_FirstCallStoresArgumentOrDerives ==
  [][(/\ last'.op = "getColdStakingAddresses"
      /\ last'.ok
      /\ coin = "part"
      /\ HasStakingPrefix(coldStakingSetup))
     => /\ last'.ret[1] = Str(coldStakingSetup.staking_key)
        /\ IF Truthy(coldStakingSetup.spend_address)
           THEN /\ last'.ret[2] = coldStakingSetup.spend_address
                /\ UNCHANGED <<addressManager, coldStakingSetup>>
           ELSE IF Truthy(last'.spendAddress)
           THEN /\ last'.ret[2] = last'.spendAddress
                /\ coldStakingSetup' =
                     [coldStakingSetup EXCEPT !.spend_address = last'.ret[2]]
                /\ UNCHANGED addressManager
           ELSE /\ status = "complete"
                /\ last'.ret[2] =
                     AddressDerive(<<1, addressManager.changeIndex>>, TRUE, TRUE)
                /\ addressManager' =
                     [addressManager EXCEPT !.changeIndex = @ + 1]
                /\ coldStakingSetup' =
                     [coldStakingSetup EXCEPT !.spend_address = last'.ret[2]]
    ]_vars

\* a later call, given a spendAddress argument, has returned the spend
\* address that an earlier call derived and cached
C10_Witness ==
  /\ last.op = "getColdStakingAddresses"
  /\ last.ok
  /\ coin = "part"
  /\ HasStakingPrefix(coldStakingSetup)
  /\ last.spendAddress = Str(SpendArg)
  /\ last.ret[2].kind = "address"
  /\ last.ret[2] = coldStakingSetup.spend_address
  /\ addressManager.changeIndex = 1

\* the setup's staking_key is an extended public key
HasExtendedKey(setup) ==
  /\ setup.has_key
  /\ ~HasStakingPrefix(setup)
  /\ setup.staking_key = XpubKey

\* the index held by address_index, 0 when it is absent
IndexOf(setup) ==
  IF setup.address_index = <<>> THEN 0 ELSE setup.address_index[1]

\* C11 as claimed: on a 'part' wallet whose staking_key is an extended public
\* key, each successful getColdStakingAddresses derives the staking address
\* from the index address_index held (0 when absent), increases address_index
\* by exactly 1, and that index was used by no earlier call on this wallet.
C11_StakingIndexNeverReused ==
  [][(/\ last'.op = "getColdStakingAddresses"
      /\ last'.ok
      /\ coin = "part"
      /\ HasExtendedKey(coldStakingSetup))
     => /\ last'.ret[1] = HDDerive(coldStakingSetup.staking_key,
                                   IndexOf(coldStakingSetup))
        /\ coldStakingSetup'.address_index = <<IndexOf(coldStakingSetup) + 1>>
        /\ IndexOf(coldStakingSetup) \notin staked]_vars

\* C11 amended: each such call derives the staking address from the index
\* address_index held (0 when absent) and increases address_index by exactly
\* 1, and no step other than updateColdStakingSetup lowers address_index: an
\* index repeats only after updateColdStakingSetup has replaced the setup.
C11_StakingIndexAdvancesByOne ==
  [][/\ (/\ last'.op = "getColdStakingAddresses"
         /\ last'.ok
         /\ coin = "part"
         /\ HasExtendedKey(coldStakingSetup))
        => /\ last'.ret[1] = HDDerive(coldStakingSetup.staking_key,
                                      IndexOf(coldStakingSetup))
           /\ coldStakingSetup'.address_index
                = <<IndexOf(coldStakingSetup) + 1>>
     /\ (created /\ last'.op # "updateColdStakingSetup")
        => IndexOf(coldStakingSetup') >= IndexOf(coldStakingSetup)]_vars

\* the second call on one setup has derived from index 1, the first from 0
C11_Witness ==
  /\ last.op = "getColdStakingAddresses"
  /\ last.ok
  /\ coin = "part"
  /\ HasExtendedKey(coldStakingSetup)
  /\ last.ret[1] = HDDerive(XpubKey, 1)
  /\ coldStakingSetup.address_index = <<2>>
  /\ staked = {0, 1}

\* C12 as claimed: a getColdStakingAddresses call on the extended-key path
\* leaves receiveIndex and changeIndex unchanged, and createAddress and
\* createAddresses leave address_index unchanged.
C12_StakingLeavesAddressCounters ==
  [][/\ (/\ last'.op = "getColdStakingAddresses"
         /\ coin = "part"
         /\ HasExtendedKey(coldStakingSetup))
        => UNCHANGED addressManager
     /\ last'.op \in {"createAddress", "createAddresses"}
        => coldStakingSetup'.address_index = coldStakingSetup.address_index
    ]_vars

\* C12 amended: such a call leaves receiveIndex unchanged, and leaves
\* changeIndex unchanged when it is given a spendAddress; given none, it
\* derives the spend address with createAddress(true, true) and so consumes
\* exactly one change index when it succeeds.  createAddress and
\* createAddresses leave address_index unchanged.
C12_StakingConsumesOnlySpendIndex ==
  [][/\ (/\ last'.op = "getColdStakingAddresses"
         /\ coin = "part"
         /\ HasExtendedKey(coldStakingSetup))
        => /\ addressManager'.receiveIndex = addressManager.receiveIndex
           /\ addressManager'.coldStakingIndex
                = addressManager.coldStakingIndex
           /\ addressManager'.changeIndex =
                IF Truthy(last'.spendAddress) \/ ~last'.ok
                THEN addressManager.changeIndex
                ELSE addressManager.changeIndex + 1
     /\ last'.op \in {"createAddress", "createAddresses"}
        => coldStakingSetup' = coldStakingSetup
    ]_vars

\* an extended-key call given a spendAddress has advanced address_index on a
\* wallet that had issued a receive address, and no change index was taken
C12_Witness ==
  /\ last.op = "getColdStakingAddresses"
  /\ last.ok
  /\ HasExtendedKey(coldStakingSetup)
  /\ last.spendAddress = Str(SpendArg)
  /\ coldStakingSetup.address_index = <<1>>
  /\ addressManager.receiveIndex = 1
  /\ addressManager.changeIndex = 0

\* position i holds the first copayer whose id is id
FirstWithId(i, id) ==
  /\ i \in 1 .. Len(copayers)
  /\ copayers[i].id = id
  /\ \A j \in 1 .. (i - 1) : copayers[j].id # id

\* C13: a successful addCopayerRequestKey(copayerId, ...) puts the new
\* request-key record first in that copayer's requestPubKeys and keeps every
\* older record after it, each one place further back and so in the order
\* they had; it changes nothing else of that copayer, no other copayer, and
\* neither status, publicKeyRing, the counters nor the cold-staking setup.
C13_RequestKeyPrepended ==
  [][(last'.op = "addCopayerRequestKey" /\ last'.ok)
     => /\ Len(copayers') = Len(copayers)
        /\ \E c \in 1 .. Len(copayers) :
             /\ FirstWithId(c, last'.copayerId)
             /\ Head(copayers'[c].requestPubKeys)
                  = [key |-> NewRequestKey, signature |-> NewSignature,
                     selfSigned |-> TRUE]
             /\ Len(copayers'[c].requestPubKeys)
                  = Len(copayers[c].requestPubKeys) + 1
             /\ \A j \in 1 .. Len(copayers[c].requestPubKeys) :
                  copayers'[c].requestPubKeys[j + 1]
                    = copayers[c].requestPubKeys[j]
             /\ copayers[c].requestPubKeys # <<>>
             /\ copayers' = [copayers EXCEPT ![c].requestPubKeys =
                                              copayers'[c].requestPubKeys]
        /\ UNCHANGED <<m, n, status, publicKeyRing, coin, network, derivationStrategy, addressType,
                       addressManager, coldStakingSetup>>]_vars

\* the second copayer of a full 2-copayer wallet held two different records
\* (an added key in front of the key it joined with) when it received another
\* key: the new record is first and the two older ones follow in their order
C13_Witness ==
  /\ last.op = "addCopayerRequestKey"
  /\ last.ok
  /\ Len(copayers) = 2
  /\ copayers[2].id = last.copayerId
  /\ copayers[1].id # last.copayerId
  /\ Len(copayers[2].requestPubKeys) = 3
  /\ copayers[2].requestPubKeys[1].key = 251
  /\ copayers[2].requestPubKeys[2].key = 250
  /\ copayers[2].requestPubKeys[3].key = copayers[2].requestPubKey
  /\ ~copayers[2].requestPubKeys[3].selfSigned
  /\ Len(copayers[1].requestPubKeys) = 1

\* C14: on a wallet created within the limits, addCopayerRequestKey succeeds
\* exactly when status is 'complete' and copayerId names an existing
\* copayer; otherwise it fails and leaves every requestPubKeys list as it
\* was.  (Stated as the claim; the code violates it.)
C14_RequestKeyNeedsCompleteAndKnown ==
  [][(/\ created
      /\ 1 <= m /\ m <= n /\ n <= 15
      /\ last'.op = "addCopayerRequestKey")
     => /\ last'.ok
            <=> (/\ status = "complete"
                 /\ \E i \in 1 .. Len(copayers) :
                      copayers[i].id = last'.copayerId)
        /\ ~last'.ok => copayers' = copayers]_vars

\* the fields of a wallet object that the round trip is claimed to keep
Listed(w) ==
  <<w.m, w.n, w.status, w.copayers, w.publicKeyRing, w.coin, w.network,
    w.derivationStrategy, w.addressType, w.addressManager,
    w.coldStakingSetup>>

\* C15: in every state reachable from Wallet.create,
\* Wallet.fromObj(wallet.toObject()) has the same m, n, status, copayers,
\* publicKeyRing, coin, network, derivationStrategy, addressType,
\* address-manager counters and coldStakingSetup as the wallet.
C15_RoundTripLossless ==
  created => Listed(fromObj(toObject(ThisWallet))) = Listed(ThisWallet)

\* a complete wallet with non-default options, a change index issued, a
\* request key added and address_index at 1, which the round trip keeps
C15_Witness ==
  /\ status = "complete"
  /\ derivationStrategy = "BIP44"
  /\ addressType = "P2PKH"
  /\ addressManager.changeIndex = 1
  /\ Len(copayers[1].requestPubKeys) = 2
  /\ coldStakingSetup.address_index = <<1>>
  /\ fromObj(toObject(ThisWallet)).coldStakingSetup.address_index = <<1>>
  /\ fromObj(toObject(ThisWallet)).addressManager.changeIndex = 1

\* the number of addresses of a branch in the service's log
IssuedOn(branch) == Cardinality({i \in 1 .. Len(log) : log[i][1] = branch})

\* C16: as long as every load / createAddress / save sequence has run inside
\* the per-wallet lock, no two calls were issued the same (branch, index),
\* and whenever no sequence is in progress the saved counters equal the
\* numbers of addresses issued.
C16_LockedIssuesDistinct ==
  allLocked
  => /\ \A i, j \in 1 .. Len(log) : i # j => log[i] # log[j]
     /\ Running = {}
        => /\ stored.addressManager.receiveIndex = IssuedOn(0)
           /\ stored.addressManager.changeIndex = IssuedOn(1)

\* both processes have run a locked sequence on the same branch and were
\* issued indices 0 and 1; the saved counter is 2
C16_Witness ==
  /\ allLocked
  /\ Running = {}
  /\ log = <<<<0, 0>>, <<0, 1>>>>
  /\ procs[1].w.status = "complete"
  /\ procs[2].w.status = "complete"
  /\ procs[1].w.addressManager.receiveIndex # procs[2].w.addressManager.receiveIndex
  /\ stored.addressManager.receiveIndex = 2

\* without the lock two interleaved sequences are issued the same index
C16_UnlockedDuplicate ==
  /\ ~allLocked
  /\ Len(log) = 2
  /\ log[1] = log[2]

\* C18: when createAddresses on a complete 'part' wallet fails (its second
\* derivation threw after the path was taken), the call throws, returns no
\* address list, and the index is consumed: the branch counter is one higher,
\* the other counter is as before, the path counts as issued and every issued
\* index stays below its branch's counter, so no later call is given it.
C18_FailedSecondDeriveKeepsIndex ==
  [][(/\ last'.op = "createAddresses"
      /\ ~last'.ok
      /\ status = "complete")
     => LET b == last'.isChange
        IN /\ coin = "part"
           /\ last'.ret = <<>>
           /\ Counter(addressManager', b) = Counter(addressManager, b) + 1
           /\ Counter(addressManager', ~b) = Counter(addressManager, ~b)
           /\ <<Branch(b), Counter(addressManager, b)>> \in issued'
           /\ \A q \in issued' :
                q[2] < Counter(addressManager', q[1] = 1)
    ]_vars

\* a complete 'part' wallet whose createAddresses just failed in the second
\* derivation: receive index 0 is consumed and the counter stands at 1
C18_Witness ==
  /\ coin = "part"
  /\ status = "complete"
  /\ last.op = "createAddresses"
  /\ ~last.ok
  /\ ~last.isChange
  /\ issued = {<<0, 0>>}
  /\ addressManager.receiveIndex = 1

\* C19: whenever getColdStakingAddresses on a wallet created within the limits
\* 1 <= m <= n <= 15 ends in an error, the wallet state is as before the
\* call: coldStakingSetup (address_index, spend_address) and the receive and
\* change counters are unchanged.  (Stated as the claim; the code violates
\* it.)
C19_FailedStakingCallChangesNothing ==
  [][(/\ last'.op = "getColdStakingAddresses"
      /\ ~last'.ok
      /\ 1 <= m /\ m <= n /\ n <= 15)
     => /\ coldStakingSetup'.address_index = coldStakingSetup.address_index
        /\ coldStakingSetup'.spend_address = coldStakingSetup.spend_address
        /\ addressManager'.receiveIndex = addressManager.receiveIndex
        /\ addressManager'.changeIndex = addressManager.changeIndex
    ]_vars

\* C20: getColdStakingAddresses on a wallet whose coin is not 'part' or whose
\* coldStakingSetup is empty returns the empty result and changes no field
\* and no counter of the wallet, whatever the status.
C20_NoOpWithoutColdStaking ==
  [][(/\ last'.op = "getColdStakingAddresses"
      /\ (coin # "part" \/ coldStakingSetup = EmptySetup))
     => /\ last'.ok
        /\ last'.ret = <<>>
        /\ UNCHANGED <<created, m, n, status, copayers, publicKeyRing, coin,
                       network, derivationStrategy, addressType,
                       addressManager, coldStakingSetup, issued, staked>>
    ]_vars

\* a pending wallet that is not 'part' but holds an extended staking key has
\* just been asked for its cold-staking addresses and has derived nothing
C20_Witness ==
  /\ last.op = "getColdStakingAddresses"
  /\ last.ok
  /\ last.ret = <<>>
  /\ coin = "btc"
  /\ status = "pending"
  /\ coldStakingSetup.has_key
  /\ IsHDPublicKey(coldStakingSetup.staking_key)
  /\ coldStakingSetup.address_index = <<>>
  /\ staked = {}

\* C17: once status is 'complete' it is 'complete' in every later state: no
\* step takes a complete wallet to another status.
C17_CompleteIsFinal ==
  [][status = "complete" => status' = "complete"]_vars

\* a complete wallet has gone through further calls of every kind that can
\* touch membership or counters and is still complete
C17_Witness ==
  /\ status = "complete"
  /\ Len(copayers) > n
  /\ n >= 1
  /\ addressManager.receiveIndex >= 1
  /\ last.op = "addCopayer"
  /\ last.ok
====
